---- MODULE Spec2Model ----
(***************************************************************************)
(* A model of spacy_llm's BatchCache (src/spacy_llm/cache.py): a doc cache  *)
(* that buffers processed docs, persists them in batch files named by the  *)
(* sum of the doc ids, and keeps an append-only index file doc id -> batch *)
(* id.  One cache instance and the directory it uses are modelled; every   *)
(* public call (add, __contains__, __getitem__, the vocab setter, and the  *)
(* construction of a fresh instance over the same directory) is one action.*)
(***************************************************************************)
EXTENDS Integers, Sequences, FiniteSets, TLC

(***************************************************************************)
(* Bounds of the model.                                                    *)
(***************************************************************************)
\* numpy.uint64 arithmetic wraps at 2^64; the model wraps at 2^WordBits.
WordBits == 3
\* Number of calls made on cache instances in one behaviour of Spec.
MaxCalls == 4
\* Largest batch_size and max_batches_in_mem the instance is built with.
MaxBatchSize == 2
MaxInMem == 1

Modulus == 2 ^ WordBits

(***************************************************************************)
(* Docs.  A doc is its token ORTH values plus the annotations and user     *)
(* data a task attached to it; an unprocessed doc has the annotation       *)
(* "raw".                                                                  *)
(***************************************************************************)
\* A doc's tokens are a sequence of ORTH values (hashes of the token texts,
\* never 0); the empty sequence is the empty doc.
Anns == {"llm_a", "llm_b"}
Doc(toks, ann) == [toks |-> toks, ann |-> ann]
\* The docs a task hands to add(), and the docs the pipeline asks about.
Processed(texts, anns) == {Doc(t, a) : t \in texts, a \in anns}
Queries(texts) == {Doc(t, "raw") : t \in texts}

RECURSIVE SumMod(_)
SumMod(s) == IF s = <<>> THEN 0 ELSE (Head(s) + SumMod(Tail(s))) % Modulus

\* numpy.sum(doc.to_array(["ORTH"]), dtype=numpy.uint64).item()
doc_id(doc) == SumMod(doc.toks)

\* Mutant: a batch id that weighs each doc id by its place in the queue.
batch_idPlaced(doc_ids) ==
    SumMod([i \in 1..Len(doc_ids) |-> (i * doc_ids[i]) % Modulus])

\* numpy.sum(numpy.asarray(doc_ids, dtype=numpy.uint64), dtype=numpy.uint64).item()
batch_id(doc_ids) == SumMod(doc_ids)

\* [self._doc_id(doc) for doc in self._cache_queue]
DocIds(docs) == [i \in 1..Len(docs) |-> doc_id(docs[i])]

(***************************************************************************)
(* Conversions.  str(int) and int(str) for the index records and the batch *)
(* file names: a string is its sequence of decimal digits.                 *)
(***************************************************************************)
RECURSIVE str(_)
str(n) == IF n < 10 THEN <<n>> ELSE Append(str(n \div 10), n % 10)

RECURSIVE int(_)
int(s) == IF s = <<>> THEN 0 ELSE 10 * int(SubSeq(s, 1, Len(s) - 1)) + s[Len(s)]

(***************************************************************************)
(* DocBin: the tokens of all docs in one array, the docs' lengths, and one *)
(* entry of annotations and user data per doc (store_user_data=True).      *)
(***************************************************************************)
RECURSIVE Flatten(_)
Flatten(ss) == IF ss = <<>> THEN <<>> ELSE Head(ss) \o Flatten(Tail(ss))

DocBin(docs) ==
    [tokens  |-> Flatten([i \in 1..Len(docs) |-> docs[i].toks]),
     lengths |-> [i \in 1..Len(docs) |-> Len(docs[i].toks)],
     anns    |-> [i \in 1..Len(docs) |-> docs[i].ann]]

RECURSIVE SumTo(_, _)
SumTo(s, n) == IF n = 0 THEN 0 ELSE s[n] + SumTo(s, n - 1)

\* DocBin.get_docs(vocab): the docs in the order they were stored.
get_docs(bin) ==
    [i \in 1..Len(bin.lengths) |->
        Doc(SubSeq(bin.tokens,
                   SumTo(bin.lengths, i - 1) + 1,
                   SumTo(bin.lengths, i)),
            bin.anns[i])]

(***************************************************************************)
(* State.                                                                  *)
(*   cache  the fields of the live BatchCache instance                     *)
(*   disk   the cache directory: dir is "absent", "dir" or "file"; index   *)
(*          is the sequence of records of index.jsonl (an absent file and  *)
(*          an empty one read the same); files maps the name of a batch    *)
(*          file (the decimal string of str(batch_id)) to its DocBin       *)
(*   ret    the last call: its name, the doc id of its argument, the       *)
(*          exception it raised ("no" when it returned) and what it        *)
(*          returned (docs is empty for None)                              *)
(*   hist   history of the run, written by no operation of the cache       *)
(*   calls  number of calls the run still makes                            *)
(*   peer   a second instance, owned by another worker process, over the   *)
(*          same directory: its fields, its position inside _persist and   *)
(*          the number of adds it still makes (SpecTwo only)               *)
(*   prog   the state of the code around the cache: the environment, the   *)
(*          config dict and the outcome of the last call of the helpers    *)
(*          and backends (their own specifications only)                   *)
(***************************************************************************)
VARIABLES cache, disk, ret, hist, calls, peer, prog

vars == <<cache, disk, ret, hist, calls, peer, prog>>

\* What no operation of an instance touches.
others == <<peer, prog>>

EmptyMap == [x \in {} |-> 0]
Put(f, k, v) == [x \in DOMAIN f \cup {k} |-> IF x = k THEN v ELSE f[x]]
Drop(f, k) == [x \in DOMAIN f \ {k} |-> f[x]]

NoStats ==
    [hit |-> 0, hit_contains |-> 0, missed |-> 0, missed_contains |-> 0,
     added |-> 0, persisted |-> 0]

\* BatchCache.__init__ up to the call of _init_cache_index.
Fields(path, batch_size, max_batches_in_mem) ==
    [path               |-> path,
     batch_size         |-> batch_size,
     max_batches_in_mem |-> max_batches_in_mem,
     vocab              |-> FALSE,
     doc2batch          |-> EmptyMap,
     batch_hashes       |-> <<>>,
     loaded_docs        |-> EmptyMap,
     cache_queue        |-> <<>>,
     stats              |-> NoStats]

\* Mutant: the two dicts merged in the other order, {**record, **index}.
MergedUnder(m, rec) ==
    IF int(rec.k) \in DOMAIN m THEN m ELSE Put(m, int(rec.k), int(rec.v))

\* {**self._doc2batch, **{int(k): int(v) for k, v in record.items()}}
Merged(m, rec) == Put(m, int(rec.k), int(rec.v))

\* The loop of _init_cache_index: each record is merged into the dict, a
\* later record replacing the value of an earlier one with the same key.
RECURSIVE Replay(_, _)
Replay(recs, m) ==
    IF recs = <<>> THEN m
    ELSE Replay(Tail(recs), Merged(m, Head(recs)))

\* Mutant: the directory is made without looking at what is there.
NotADirNever(d) == FALSE

\* self._path.exists() and not self._path.is_dir()
NotADir(d) == d.dir = "file"

init_cache_index(c, d) ==
    IF c.path = "none" THEN [cache |-> c, disk |-> d, raised |-> "no"]
    ELSE IF NotADir(d) THEN [cache |-> c, disk |-> d, raised |-> "ValueError"]
    ELSE [cache  |-> [c EXCEPT !.doc2batch = Replay(d.index, c.doc2batch)],
          disk   |-> [d EXCEPT !.dir = "dir"],
          raised |-> "no"]

(***************************************************************************)
(* _persist.  fault says where the disk fails: nowhere ("none"), in        *)
(* DocBin.to_disk ("artifact": nothing is written) or in srsly.write_jsonl *)
(* ("index": the first fault.n lines got written).                         *)
(***************************************************************************)
NoFault == [at |-> "none", n |-> 0]

\* Mutant: the queue is not cleared after it was written.
QueueKept(c) == [c EXCEPT !.stats.persisted = @ + Len(c.cache_queue)]

\* Mutant: a flush empties the memory of loaded batches.
WrittenEvicting(c) ==
    [c EXCEPT !.stats.persisted = @ + Len(c.cache_queue), !.cache_queue = <<>>,
              !.loaded_docs = EmptyMap, !.batch_hashes = <<>>]

\* Mutant: the flush starts the count of added docs again.
WrittenRestart(c) ==
    [c EXCEPT !.stats.persisted = @ + Len(c.cache_queue), !.cache_queue = <<>>,
              !.stats.added = 0]

\* Mutant: a flush counts one for the batch, not one for each doc.
WrittenBatches(c) ==
    [c EXCEPT !.stats.persisted = @ + 1, !.cache_queue = <<>>]

\* The end of _persist, after both writes.
Written(c) ==
    [c EXCEPT !.stats.persisted = @ + Len(c.cache_queue), !.cache_queue = <<>>]

\* Mutant: the index records are written before the batch file.
IndexWrittenFirst(d, lines) == [d EXCEPT !.index = @ \o lines]

\* The disk when DocBin.to_disk raised: write_jsonl, which comes after it,
\* has not run.
ArtifactFailed(d, lines) == d

RECURSIVE SetAll(_, _, _)
SetAll(m, keys, v) ==
    IF keys = <<>> THEN m ELSE SetAll(Put(m, Head(keys), v), Tail(keys), v)

IndexLines(doc_ids, b) ==
    [i \in 1..Len(doc_ids) |-> [k |-> str(doc_ids[i]), v |-> str(b)]]

\* Mutant: write_jsonl called with append=False.
Overwritten(index, lines) == lines

\* srsly.write_jsonl(..., append=True, append_new_line=False).
Appended(index, lines) == index \o lines

persist(c, d, fault) ==
    LET doc_ids == DocIds(c.cache_queue)
        b       == batch_id(doc_ids)
        c1      == [c EXCEPT !.doc2batch = SetAll(@, doc_ids, b)]
        d1      == [d EXCEPT !.files = Put(@, str(b), DocBin(c.cache_queue))]
        lines   == IndexLines(doc_ids, b)
    IN  IF fault.at = "artifact"
        THEN [cache |-> c1, disk |-> ArtifactFailed(d, lines), raised |-> "OSError"]
        ELSE IF fault.at = "index"
        THEN [cache  |-> c1,
              disk   |-> [d1 EXCEPT !.index = Appended(@, SubSeq(lines, 1, fault.n))],
              raised |-> "OSError"]
        ELSE [cache  |-> Written(c1),
              disk   |-> [d1 EXCEPT !.index = Appended(@, lines)],
              raised |-> "no"]

\* Mutant: the queue is persisted one add late.
QueueOver(c) == Len(c.cache_queue) > c.batch_size

\* The test of add() that decides whether the queue is persisted.
QueueFull(c) == Len(c.cache_queue) = c.batch_size

\* Mutant: add() without its early return.
DisabledNever(c) == FALSE

\* add() returns at once when the cache has no directory.
Disabled(c) == c.path = "none"

\* Mutant: the doc is entered in the index as soon as it is queued, under
\* the batch id of the queue so far.
EnqueuedIndexed(c, doc) ==
    [c EXCEPT !.cache_queue = Append(@, doc),
              !.stats.added = @ + 1,
              !.doc2batch = Put(@, doc_id(doc),
                                batch_id(DocIds(Append(c.cache_queue, doc))))]

\* self._cache_queue.append(doc); self._stats["added"] += 1
Enqueued(c, doc) ==
    [c EXCEPT !.cache_queue = Append(@, doc), !.stats.added = @ + 1]

add(c, d, doc, fault) ==
    IF Disabled(c) THEN [cache |-> c, disk |-> d, raised |-> "no"]
    ELSE LET c1 == Enqueued(c, doc)
         IN  IF QueueFull(c1) THEN persist(c1, d, fault)
             ELSE [cache |-> c1, disk |-> d, raised |-> "no"]

\* Mutant: __contains__ reads the index file again before it answers.
containsFresh(c, doc) ==
    IF doc_id(doc) \notin DOMAIN Replay(disk.index, c.doc2batch)
    THEN [cache |-> [c EXCEPT !.stats.missed_contains = @ + 1], found |-> FALSE]
    ELSE [cache |-> [c EXCEPT !.stats.hit_contains = @ + 1], found |-> TRUE]

\* Mutant: __contains__ with the truthiness test of __getitem__.
containsTruthy(c, doc) ==
    IF doc_id(doc) \notin DOMAIN c.doc2batch \/ c.doc2batch[doc_id(doc)] = 0
    THEN [cache |-> [c EXCEPT !.stats.missed_contains = @ + 1], found |-> FALSE]
    ELSE [cache |-> [c EXCEPT !.stats.hit_contains = @ + 1], found |-> TRUE]

contains(c, doc) ==
    IF doc_id(doc) \notin DOMAIN c.doc2batch
    THEN [cache |-> [c EXCEPT !.stats.missed_contains = @ + 1], found |-> FALSE]
    ELSE [cache |-> [c EXCEPT !.stats.hit_contains = @ + 1], found |-> TRUE]

(***************************************************************************)
(* __getitem__.                                                            *)
(***************************************************************************)
\* `if not batch_id`: the test that takes the doc for one not in the cache.
NotCached(c, id) == id \notin DOMAIN c.doc2batch \/ c.doc2batch[id] = 0

\* Mutant: a batch is discarded only once the budget is exceeded.
MemOver(c) == Cardinality(DOMAIN c.loaded_docs) > c.max_batches_in_mem

\* `len(self._loaded_docs) == self.max_batches_in_mem`
MemFull(c) == Cardinality(DOMAIN c.loaded_docs) = c.max_batches_in_mem

\* Mutant: the batch loaded last is discarded.
Newest(c) == c.batch_hashes[Len(c.batch_hashes)]

\* The batch the eviction discards: self._batch_hashes[0].
Oldest(c) == c.batch_hashes[1]

\* The dict comprehension over get_docs: doc id -> doc, a later doc of the
\* batch replacing an earlier one with the same id.
DictOf(docs) ==
    LET ids == {doc_id(docs[i]) : i \in 1..Len(docs)}
        last(k) == CHOOSE i \in 1..Len(docs) :
                      /\ doc_id(docs[i]) = k
                      /\ \A j \in 1..Len(docs) : doc_id(docs[j]) = k => j <= i
    IN  [k \in ids |-> docs[last(k)]]

\* The last line: self._loaded_docs[batch_id][doc_id]
Fetch(c, b, id) ==
    IF id \in DOMAIN c.loaded_docs[b]
    THEN [cache |-> c, raised |-> "no", docs |-> {c.loaded_docs[b][id]}]
    ELSE [cache |-> c, raised |-> "KeyError", docs |-> {}]

Raise(c, e) == [cache |-> c, raised |-> e, docs |-> {}]

\* What DocBin().from_disk raises on a missing or an unreadable file.
LoadErrors == {"FileNotFoundError", "zlib.error"}

\* Mutant: the eviction also forgets the index entries of the batch.
DiscardedUnindexed(c) ==
    [c EXCEPT !.loaded_docs = Drop(@, Oldest(c)),
              !.batch_hashes = Tail(@),
              !.doc2batch = [k \in {j \in DOMAIN @ : @[j] # Oldest(c)} |-> @[k]]]

\* Lines 205-207: the oldest batch leaves memory.
Discarded(c) ==
    [c EXCEPT !.loaded_docs = Drop(@, Oldest(c)),
              !.batch_hashes = Tail(@)]

\* Lines 204-216: discard a batch if memory is full, then load batch b.
Load(c, d, b, id) ==
    LET evicts == MemFull(c)
        c2 == IF evicts THEN Discarded(c) ELSE c
        c3 == [c2 EXCEPT !.batch_hashes = Append(@, b)]
        c4 == [c3 EXCEPT !.loaded_docs =
                  Put(@, b, DictOf(get_docs(d.files[str(b)])))]
    IN  IF evicts /\ c.batch_hashes = <<>> THEN Raise(c, "IndexError")
        ELSE IF evicts /\ Oldest(c) \notin DOMAIN c.loaded_docs
        THEN Raise(c, "KeyError")
        ELSE IF str(b) \in d.torn THEN Raise(c3, "zlib.error")
        ELSE IF str(b) \notin DOMAIN d.files THEN Raise(c3, "FileNotFoundError")
        ELSE Fetch(c4, b, id)

getitem(c, d, doc) ==
    LET id == doc_id(doc)
    IN  IF NotCached(c, id)
        THEN [cache |-> [c EXCEPT !.stats.missed = @ + 1],
              raised |-> "no", docs |-> {}]
        ELSE LET b  == c.doc2batch[id]
                 c1 == [c EXCEPT !.stats.hit = @ + 1]
             IN  IF b \in DOMAIN c1.loaded_docs THEN Fetch(c1, b, id)
                 ELSE IF c1.path = "none" THEN Raise(c1, "ValueError")
                 ELSE IF ~c1.vocab THEN Raise(c1, "ValueError")
                 ELSE Load(c1, d, b, id)

(***************************************************************************)
(* The calls as actions.                                                   *)
(***************************************************************************)
Ret(op, doc, raised, docs, found) ==
    [op |-> op, arg |-> doc, raised |-> raised, docs |-> docs, found |-> found]

NoDoc == Doc(<<>>, "raw")

Range(s) == {s[i] : i \in 1..Len(s)}

Without(s, gone) ==
    LET keep(x) == x \notin gone IN SelectSeq(s, keep)

\* The history after a call that took the instance from c to c2: loadOrder
\* lists the resident batches, the one loaded earliest first; lastHit is
\* the batch of the last lookup that returned a doc, evicted the batch that
\* left memory last (-1: none yet), evictedLastHit whether that batch was
\* the one looked up last before it left, reloaded whether such a batch has
\* been loaded again right after.
Observed(h, c, c2, hitBatch) ==
    LET gone == DOMAIN c.loaded_docs \ DOMAIN c2.loaded_docs
        new  == DOMAIN c2.loaded_docs \ DOMAIN c.loaded_docs
    IN  [h EXCEPT !.loadOrder =
                      Without(@, gone) \o
                      (IF new = {} THEN <<>> ELSE <<CHOOSE b \in new : TRUE>>),
                  !.lastHit = IF hitBatch = -1 THEN @ ELSE hitBatch,
                  !.evicted = IF gone = {} THEN @ ELSE CHOOSE b \in gone : TRUE,
                  !.evictedLastHit = IF gone = {} THEN @ ELSE h.lastHit \in gone,
                  !.reloaded = @ \/ (h.evictedLastHit /\ new = {h.evicted})]

\* torn: the names of the batch files that are open for writing, created or
\* truncated by DocBin.to_disk and not yet written.
EmptyDisk ==
    [dir |-> "absent", index |-> <<>>, files |-> EmptyMap, torn |-> {}]

NoHist ==
    [loadOrder |-> <<>>, lastHit |-> -1, evicted |-> -1,
     evictedLastHit |-> FALSE, reloaded |-> FALSE, flushed |-> {},
     flushedBefore |-> {}, gen |-> 0, latest |-> EmptyMap, twice |-> {},
     loadFailed |-> FALSE]

\* No call of a helper or backend.
NoProg == [at |-> "none"]

\* No second instance.
NoPeer == [cache |-> Fields("none", 0, 0), pc |-> "none", left |-> 0]

Paths == {"none", "dir"}
BatchSizes == 0..MaxBatchSize
MaxBatches == (-1)..MaxInMem

\* The state after BatchCache(path, batch_size, max_batches_in_mem) over an
\* empty directory, with n calls to come.
Constructed(p, bs, mb, n) ==
    LET r == init_cache_index(Fields(p, bs, mb), EmptyDisk)
    IN  /\ cache = r.cache
        /\ disk = r.disk
        /\ ret = Ret("init", NoDoc, r.raised, {}, FALSE)
        /\ hist = NoHist
        /\ calls = n
        /\ peer = NoPeer
        /\ prog = NoProg

\* The history after the docs of seq were flushed as one batch: flushed
\* collects every doc flushed to the directory, latest maps a doc id to the
\* doc this instance flushed last under it, twice holds the doc ids under
\* which this instance flushed more than one doc.
Flushed(h, seq) ==
    LET ids == {doc_id(seq[i]) : i \in DOMAIN seq}
        at(id) == {i \in DOMAIN seq : doc_id(seq[i]) = id}
        last(id) == seq[CHOOSE i \in at(id) : \A j \in at(id) : j <= i]
    IN  [h EXCEPT !.flushed = @ \cup Range(seq),
                  !.latest = [id \in DOMAIN @ \cup ids |->
                                 IF id \in ids THEN last(id) ELSE @[id]],
                  !.twice = @ \cup (ids \cap DOMAIN h.latest)
                              \cup {id \in ids : Cardinality(at(id)) > 1}]

AddWith(doc, fault) ==
    /\ calls > 0
    /\ LET r == add(cache, disk, doc, fault)
           flushedNow == IF r.cache.stats.persisted > cache.stats.persisted
                         THEN Append(cache.cache_queue, doc) ELSE <<>>
       IN  /\ cache' = r.cache
           /\ disk' = r.disk
           /\ ret' = Ret("add", doc, r.raised, {}, FALSE)
           /\ hist' = Flushed(hist, flushedNow)
    /\ calls' = calls - 1
    /\ UNCHANGED others

Add(D) == \E doc \in D : AddWith(doc, NoFault)

Contains(Q) ==
    \E doc \in Q :
        /\ calls > 0
        /\ LET r == contains(cache, doc)
           IN  /\ cache' = r.cache
               /\ ret' = Ret("contains", doc, "no", {}, r.found)
        /\ calls' = calls - 1
        /\ UNCHANGED <<disk, hist, others>>

GetItem(Q) ==
    \E doc \in Q :
        /\ calls > 0
        /\ LET r == getitem(cache, disk, doc)
               hitBatch == IF r.docs = {} THEN -1
                           ELSE cache.doc2batch[doc_id(doc)]
           IN  /\ cache' = r.cache
               /\ ret' = Ret("getitem", doc, r.raised, r.docs, FALSE)
               /\ hist' = [Observed(hist, cache, r.cache, hitBatch) EXCEPT
                               !.loadFailed = @ \/ r.raised \in LoadErrors]
        /\ calls' = calls - 1
        /\ UNCHANGED <<disk, others>>

\* The vocab setter.
SetVocab ==
    /\ ~cache.vocab
    /\ cache' = [cache EXCEPT !.vocab = TRUE]
    /\ ret' = Ret("vocab", NoDoc, "no", {}, FALSE)
    /\ UNCHANGED <<disk, hist, calls, others>>

\* A fresh instance is constructed over the same directory with the same
\* arguments (a run is resumed); the old instance is dropped with its queue.
Reopen ==
    /\ calls > 0
    /\ LET r == init_cache_index(
                    Fields(cache.path, cache.batch_size, cache.max_batches_in_mem),
                    disk)
       IN  /\ cache' = r.cache
           /\ disk' = r.disk
           /\ ret' = Ret("init", NoDoc, r.raised, {}, FALSE)
    /\ hist' = [hist EXCEPT !.loadOrder = <<>>, !.lastHit = -1, !.evicted = -1,
                            !.evictedLastHit = FALSE, !.reloaded = FALSE,
                            !.flushedBefore = hist.flushed, !.gen = @ + 1,
                            !.latest = EmptyMap, !.twice = {},
                            !.loadFailed = FALSE]
    /\ calls' = calls - 1
    /\ UNCHANGED others

(***************************************************************************)
(* Spec: any instance, enabled or not, over a working disk.                *)
(***************************************************************************)
SmallTexts == {<<>>, <<1>>, <<2>>}

Init ==
    \E p \in Paths, bs \in BatchSizes, mb \in MaxBatches :
        Constructed(p, bs, mb, MaxCalls)

Next ==
    \/ Add(Processed(SmallTexts, Anns))
    \/ Contains(Queries(SmallTexts))
    \/ GetItem(Queries(SmallTexts))
    \/ SetVocab
    \/ Reopen

Spec == Init /\ [][Next]_vars

(***************************************************************************)
(* SpecFault: an enabled instance over a disk whose writes may fail: a     *)
(* flush may raise in DocBin.to_disk or in srsly.write_jsonl, after any    *)
(* number of the batch's index lines got written.                          *)
(***************************************************************************)
Faults(c) ==
    {[at |-> "artifact", n |-> 0]} \cup
    {[at |-> "index", n |-> k] : k \in 0..(c.batch_size - 1)}

AddFailing(D) ==
    \E doc \in D :
        /\ ~Disabled(cache)
        /\ Len(cache.cache_queue) + 1 = cache.batch_size
        /\ \E fault \in Faults(cache) : AddWith(doc, fault)

InitFault ==
    \E bs \in 1..MaxBatchSize, mb \in 0..MaxInMem :
        Constructed("dir", bs, mb, MaxCalls)

NextFault ==
    \/ Add(Processed(SmallTexts, Anns))
    \/ AddFailing(Processed(SmallTexts, Anns))
    \/ Contains(Queries(SmallTexts))
    \/ GetItem(Queries(SmallTexts))
    \/ SetVocab
    \/ Reopen

SpecFault == InitFault /\ [][NextFault]_vars

(***************************************************************************)
(* SpecFifo: an enabled instance with batch_size 1 and room for one or two *)
(* batches in memory, the vocab set, and docs with three different ids.    *)
(***************************************************************************)
FifoCalls == 8
FifoInMem == 2
FifoTexts == {<<1>>, <<2>>, <<1, 2>>}

InitFifo ==
    \E mb \in 1..FifoInMem : Constructed("dir", 1, mb, FifoCalls)

NextFifo ==
    \/ Add(Processed(FifoTexts, {"llm_a"}))
    \/ GetItem(Queries(FifoTexts))
    \/ SetVocab

SpecFifo == InitFifo /\ [][NextFifo]_vars

(***************************************************************************)
(* SpecScen: the scenario of four units A, B, C, D added in this order to  *)
(* an instance with batch_size 2 and room for one batch in memory, with    *)
(* lookups of any of the four at any point in between.                     *)
(***************************************************************************)
ScenCalls == 7

ScenTexts == <<(<<1>>), (<<2>>), (<<3>>), (<<4>>)>>

ScenDoc(i) == Doc(ScenTexts[i], "llm_a")
ScenQuery(i) == Doc(ScenTexts[i], "raw")

BatchAB == batch_id(<<doc_id(ScenDoc(1)), doc_id(ScenDoc(2))>>)
BatchCD == batch_id(<<doc_id(ScenDoc(3)), doc_id(ScenDoc(4))>>)

AddNext ==
    /\ cache.stats.added < Len(ScenTexts)
    /\ Add({ScenDoc(cache.stats.added + 1)})

InitScen == Constructed("dir", 2, 1, ScenCalls)

NextScen ==
    \/ AddNext
    \/ GetItem({ScenQuery(i) : i \in DOMAIN ScenTexts})
    \/ SetVocab

SpecScen == InitScen /\ [][NextScen]_vars

(***************************************************************************)
(* SpecOrder: an enabled instance with batch_size 1 and docs made of the   *)
(* same two tokens in either order.                                        *)
(***************************************************************************)
OrderTexts == {<<1>>, <<1, 2>>, <<2, 1>>}

InitOrder ==
    \E mb \in 0..MaxInMem : Constructed("dir", 1, mb, MaxCalls)

NextOrder ==
    \/ Add(Processed(OrderTexts, Anns))
    \/ Contains(Queries(OrderTexts))
    \/ GetItem(Queries(OrderTexts))
    \/ SetVocab

SpecOrder == InitOrder /\ [][NextOrder]_vars

(***************************************************************************)
(* SpecBatch: an enabled instance with batches of two or more docs, whose  *)
(* ids reach up to the largest unsigned value, so that their sum wraps.    *)
(***************************************************************************)
BatchCalls == 4

BatchTexts == {<<1>>, <<2>>, <<Modulus - 1>>, <<Modulus - 2, 1>>}

InitBatch ==
    \E bs \in 2..MaxBatchSize : Constructed("dir", bs, 0, BatchCalls)

NextBatch ==
    \/ Add(Processed(BatchTexts, {"llm_a"}))
    \/ Contains(Queries(BatchTexts))

SpecBatch == InitBatch /\ [][NextBatch]_vars

(***************************************************************************)
(* SpecTwo: two instances over one directory, each owned by its own worker *)
(* process.  The calls on the first (cache) are whole steps as before; the *)
(* second (peer) only adds, and its _persist is taken apart into the       *)
(* steps another process can see: the index in memory is set, to_disk      *)
(* opens the batch file for writing, to_disk has written it, write_jsonl   *)
(* has appended the records.  Nothing in the code makes one process wait   *)
(* for the other.                                                          *)
(***************************************************************************)
TwoCalls == 3
PeerCalls == 2

TwoTexts == {<<1>>, <<2>>}

\* Lines 149-153 of _persist.
Indexed(c) ==
    LET doc_ids == DocIds(c.cache_queue)
    IN  [c EXCEPT !.doc2batch = SetAll(@, doc_ids, batch_id(doc_ids))]

PeerBatch == batch_id(DocIds(peer.cache.cache_queue))

\* DocBin.to_disk, first half: path.open("wb") creates or truncates the file.
Opened(d, b) == [d EXCEPT !.torn = @ \cup {str(b)}]

\* DocBin.to_disk, second half: the bytes are written and the file closed.
Closed(d, b, docs) ==
    [d EXCEPT !.files = Put(@, str(b), DocBin(docs)), !.torn = @ \ {str(b)}]

\* Mutant: a lookup waits while the other process is inside _persist.
Locked == peer.pc = "idle"

\* __getitem__ takes no lock before it reads a batch file.
Unlocked == TRUE

Lookup(Q) == Unlocked /\ GetItem(Q)

PeerAdd(D) ==
    \E doc \in D :
        /\ peer.pc = "idle"
        /\ peer.left > 0
        /\ LET c1 == Enqueued(peer.cache, doc)
           IN  peer' = IF QueueFull(c1)
                       THEN [cache |-> Indexed(c1), pc |-> "to_disk",
                             left |-> peer.left - 1]
                       ELSE [cache |-> c1, pc |-> "idle",
                             left |-> peer.left - 1]
        /\ UNCHANGED <<cache, disk, ret, hist, calls, prog>>

PeerOpen ==
    /\ peer.pc = "to_disk"
    /\ disk' = Opened(disk, PeerBatch)
    /\ peer' = [peer EXCEPT !.pc = "writing"]
    /\ UNCHANGED <<cache, ret, hist, calls, prog>>

PeerClose ==
    /\ peer.pc = "writing"
    /\ disk' = Closed(disk, PeerBatch, peer.cache.cache_queue)
    /\ peer' = [peer EXCEPT !.pc = "write_jsonl"]
    /\ UNCHANGED <<cache, ret, hist, calls, prog>>

PeerWriteIndex ==
    /\ peer.pc = "write_jsonl"
    /\ disk' = [disk EXCEPT !.index =
                    Appended(@, IndexLines(DocIds(peer.cache.cache_queue),
                                           PeerBatch))]
    /\ peer' = [peer EXCEPT !.cache = Written(@), !.pc = "idle"]
    /\ UNCHANGED <<cache, ret, hist, calls, prog>>

InitTwo ==
    \E bs \in 1..MaxBatchSize, mb \in 1..MaxInMem :
        LET r1 == init_cache_index(Fields("dir", bs, mb), EmptyDisk)
            r2 == init_cache_index(Fields("dir", bs, mb), r1.disk)
        IN  /\ cache = r1.cache
            /\ disk = r2.disk
            /\ peer = [cache |-> r2.cache, pc |-> "idle", left |-> PeerCalls]
            /\ ret = Ret("init", NoDoc, "no", {}, FALSE)
            /\ hist = NoHist
            /\ calls = TwoCalls
            /\ prog = NoProg

NextTwo ==
    \/ Add(Processed(TwoTexts, {"llm_a"}))
    \/ Contains(Queries(TwoTexts))
    \/ Lookup(Queries(TwoTexts))
    \/ SetVocab
    \/ Reopen
    \/ PeerAdd(Processed(TwoTexts, {"llm_b"}))
    \/ PeerOpen
    \/ PeerClose
    \/ PeerWriteIndex

SpecTwo == InitTwo /\ [][NextTwo]_vars

(***************************************************************************)
(* util.consume_parameter.  A Python string is a sequence of characters,   *)
(* a Python value a record: None, an int, a str or a bool.                 *)
(***************************************************************************)
None == [t |-> "none", n |-> 0, s |-> <<>>]
IntV(n) == [t |-> "int", n |-> n, s |-> <<>>]
StrV(s) == [t |-> "str", n |-> 0, s |-> s]
BoolV(b) == [t |-> "bool", n |-> IF b THEN 1 ELSE 0, s |-> <<>>]

\* str.upper(), on the letters the model uses.
upper(s) ==
    [i \in DOMAIN s |->
        CASE s[i] = "b" -> "B" [] s[i] = "c" -> "C" [] s[i] = "f" -> "F"
          [] OTHER -> s[i]]

DigitChars == {"0", "1", "2", "3", "4", "5", "6", "7", "8", "9"}

DigitOf(ch) ==
    CASE ch = "0" -> 0 [] ch = "1" -> 1 [] ch = "2" -> 2 [] ch = "3" -> 3
      [] ch = "4" -> 4 [] ch = "5" -> 5 [] ch = "6" -> 6 [] ch = "7" -> 7
      [] ch = "8" -> 8 [] ch = "9" -> 9

\* type_(env_value) for type_ one of str, int, bool: int raises ValueError
\* on a string that is not a decimal number, bool is False for "" only.
type_(name, s) ==
    IF name = "str" THEN [raised |-> "no", value |-> StrV(s)]
    ELSE IF name = "bool" THEN [raised |-> "no", value |-> BoolV(s # <<>>)]
    ELSE IF s = <<>> \/ \E i \in DOMAIN s : s[i] \notin DigitChars
    THEN [raised |-> "ValueError", value |-> None]
    ELSE [raised |-> "no",
          value |-> IntV(int([i \in DOMAIN s |-> DigitOf(s[i])]))]

\* os.getenv(env_key, None)
getenv(environ, env_key) ==
    IF env_key \in DOMAIN environ THEN StrV(environ[env_key]) ELSE None

\* Mutant: key is left in config when the value comes from the environment.
PoppedNot(config, key) == config

\* config.pop(key, None)
Popped(config, key) == Drop(config, key)

\* Mutant: a parameter that is found nowhere comes back as None.
NotFoundNone(config) == [config |-> config, raised |-> "no", value |-> None]

\* config.pop(key) raised KeyError: ValueError is raised in its place.
NotFound(config) == [config |-> config, raised |-> "ValueError", value |-> None]

consume_parameter(config, environ, key, prefix, default, tp) ==
    LET env_key   == IF prefix = None THEN upper(key) ELSE prefix.s \o upper(key)
        env_value == getenv(environ, env_key)
    IN  IF env_value # None
        THEN LET r == type_(tp, env_value.s)
             IN  [config |-> Popped(config, key),
                  raised |-> r.raised, value |-> r.value]
        ELSE IF default = None
        THEN IF key \in DOMAIN config
             THEN [config |-> Drop(config, key),
                   raised |-> "no", value |-> config[key]]
             ELSE NotFound(config)
        ELSE [config |-> Drop(config, key),
              raised |-> "no",
              value  |-> IF key \in DOMAIN config THEN config[key] ELSE default]

(***************************************************************************)
(* SpecUtil: consume_parameter called on a config dict and a process       *)
(* environment, with any key, prefix, default and type_.                   *)
(***************************************************************************)
UtilCalls == 1

ConfigKeys == {<<"b">>, <<"c">>, <<"B">>}
Configs ==
    UNION {[ks -> {IntV(42)}] : ks \in SUBSET ConfigKeys}
        \cup {[k \in {<<"b">>} |-> None]}

EnvNames == {<<"B">>, <<"F", "_", "B">>, <<"F", "_", "b">>}
EnvValues == {<<>>, <<"1", "2">>}
Environs == UNION {[ns -> EnvValues] : ns \in SUBSET EnvNames}

ParamKeys == {<<"b">>, <<"c">>}
Prefixes == {None, StrV(<<"F", "_">>)}
Defaults == {None, IntV(1)}
Types == {"str", "int", "bool"}

NoArgs == [key |-> <<>>, prefix |-> None, default |-> None, type_ |-> "str"]
NoOut == [raised |-> "no", value |-> None]

ConsumeParameter ==
    \E key \in ParamKeys, prefix \in Prefixes, default \in Defaults,
       tp \in Types :
        /\ prog.at = "util"
        /\ prog.left > 0
        /\ LET r == consume_parameter(prog.config, prog.environ, key, prefix,
                                      default, tp)
           IN  prog' = [prog EXCEPT
                           !.config = r.config,
                           !.args = [key |-> key, prefix |-> prefix,
                                     default |-> default, type_ |-> tp],
                           !.out = [raised |-> r.raised, value |-> r.value],
                           !.left = @ - 1]
        /\ UNCHANGED <<cache, disk, ret, hist, calls, peer>>

\* No instance of the cache takes part.
NoCache ==
    /\ cache = Fields("none", 0, 0)
    /\ disk = EmptyDisk
    /\ ret = Ret("init", NoDoc, "no", {}, FALSE)
    /\ hist = NoHist
    /\ calls = 0
    /\ peer = NoPeer

InitUtil ==
    /\ NoCache
    /\ \E config \in Configs, environ \in Environs :
          prog = [at |-> "util", config |-> config, environ |-> environ,
                  args |-> NoArgs, out |-> NoOut, left |-> UtilCalls]

NextUtil == ConsumeParameter

SpecUtil == InitUtil /\ [][NextUtil]_vars

(***************************************************************************)
(* AzureOpenAIBackend.__call__.  The API answers a request in one of four  *)
(* ways: a well-formed response whose choices carry the text ("content"),  *)
(* a well-formed response whose choices lack it ("plain"), a response with *)
(* a success status whose JSON has an "error" entry ("error"), or a        *)
(* response with an HTTP error status ("http_error").  A result entry is   *)
(* "text" (the text of a choice), "json" (a choice serialized) or          *)
(* "error_json" (the error response serialized).                           *)
(***************************************************************************)
MaxPrompts == 3

ResponseKinds == {"content", "plain", "error", "http_error"}

\* Mutant: the error response is returned once, not once per prompt.
ErrorEntriesOnce(n) == <<"error_json">>

\* [srsly.json_dumps(responses)] * len(prompts)
ErrorEntries(n) == [i \in 1..n |-> "error_json"]

\* _request: raise_for_status() raises for an HTTP error status, and the
\* handler raises ValueError; an "error" entry raises only if strict.
request(strict, n, kind) ==
    IF kind = "http_error" THEN [raised |-> "ValueError", error |-> <<>>]
    ELSE IF kind = "error"
    THEN IF strict THEN [raised |-> "ValueError", error |-> <<>>]
         ELSE [raised |-> "no", error |-> ErrorEntries(n)]
    ELSE [raised |-> "no", error |-> <<>>]

\* What a choice of a well-formed response adds to api_responses.
Entry(kind) == IF kind = "content" THEN "text" ELSE "json"

AzureCall ==
    /\ prog.at = "azure"
    /\ prog.pc = "ready"
    /\ \E n \in 0..MaxPrompts :
          prog' = [prog EXCEPT !.pc = "running", !.n = n]
    /\ UNCHANGED <<cache, disk, ret, hist, calls, peer>>

\* One request and what __call__ does with its response: one request per
\* prompt for a chat deployment, one request for all prompts otherwise.
AzureRequest ==
    /\ prog.at = "azure"
    /\ prog.pc = "running"
    /\ prog.is_chat => Len(prog.api_responses) < prog.n
    /\ \E kind \in ResponseKinds :
          LET r == request(prog.strict, prog.n, kind)
              p == [prog EXCEPT !.seen = @ \cup {kind}]
          IN  prog' =
                 IF r.raised # "no"
                 THEN [p EXCEPT !.pc = "raised", !.raised = r.raised]
                 ELSE IF kind = "error"
                 THEN [p EXCEPT !.pc = "returned", !.out = r.error]
                 ELSE IF prog.is_chat
                 THEN [p EXCEPT !.api_responses = Append(@, Entry(kind))]
                 ELSE [p EXCEPT !.pc = "returned",
                                !.out = [i \in 1..prog.n |-> Entry(kind)]]
    /\ UNCHANGED <<cache, disk, ret, hist, calls, peer>>

\* The loop over the prompts of a chat deployment is over.
AzureReturn ==
    /\ prog.at = "azure"
    /\ prog.pc = "running"
    /\ prog.is_chat
    /\ Len(prog.api_responses) = prog.n
    /\ prog' = [prog EXCEPT !.pc = "returned", !.out = prog.api_responses]
    /\ UNCHANGED <<cache, disk, ret, hist, calls, peer>>

InitAzure ==
    /\ NoCache
    /\ \E strict \in BOOLEAN, is_chat \in BOOLEAN :
          prog = [at |-> "azure", strict |-> strict, is_chat |-> is_chat,
                  pc |-> "ready", n |-> 0, api_responses |-> <<>>,
                  seen |-> {}, out |-> <<>>, raised |-> "no"]

NextAzure ==
    \/ AzureCall
    \/ AzureRequest
    \/ AzureReturn

SpecAzure == InitAzure /\ [][NextAzure]_vars

(***************************************************************************)
(* CohereBackend.__call__.  The API answers a request with a body of       *)
(* generations, each with a 'text' field ("text") or without ("plain"),    *)
(* with a body carrying 'message' under a success status, or with an HTTP  *)
(* error status.  An entry of the result is the text of a generation or    *)
(* the response serialized ("json"), tagged here with the prompt whose     *)
(* response it comes from.                                                 *)
(***************************************************************************)
MaxGenerations == 2

Generations ==
    UNION {[1..k -> {"text", "plain"}] : k \in 0..MaxGenerations}

Body(kind, gens) == [kind |-> kind, generations |-> gens]

Bodies ==
    {Body("generations", g) : g \in Generations}
        \cup {Body("message", <<>>), Body("http_error", <<>>)}

\* _request: what it returns for a body, or the error it raises.
cohere_request(strict, body) ==
    IF body.kind = "http_error" THEN [raised |-> "ValueError", response |-> body]
    ELSE IF body.kind = "message"
    THEN IF strict THEN [raised |-> "ValueError", response |-> body]
         ELSE [raised |-> "no", response |-> Body("error", <<>>)]
    ELSE [raised |-> "no", response |-> body]

\* The inner loop, lines 96-104: what the generations of the response to
\* prompt i add to api_responses.
RECURSIVE Results(_, _)
Results(i, gens) ==
    IF gens = <<>> THEN <<>>
    ELSE IF Head(gens) = "text" THEN <<[prompt |-> i, entry |-> "text"]>>
    ELSE <<[prompt |-> i, entry |-> "json"]>> \o Results(i, Tail(gens))

\* The outer loop, lines 95-104, from response i on: response["generations"]
\* raises KeyError for the dict _request returns for an error body.
RECURSIVE Collected(_, _)
Collected(responses, i) ==
    IF i > Len(responses) THEN [raised |-> "no", out |-> <<>>]
    ELSE IF responses[i].kind # "generations"
    THEN [raised |-> "KeyError", out |-> <<>>]
    ELSE LET rest == Collected(responses, i + 1)
         IN  IF rest.raised # "no" THEN rest
             ELSE [raised |-> "no",
                   out |-> Results(i, responses[i].generations) \o rest.out]

CohereCall ==
    /\ prog.at = "cohere"
    /\ prog.pc = "ready"
    /\ \E n \in 0..MaxPrompts :
          prog' = [prog EXCEPT !.pc = "requesting", !.n = n]
    /\ UNCHANGED <<cache, disk, ret, hist, calls, peer>>

\* Line 94: one request for the next prompt.
CohereRequest ==
    /\ prog.at = "cohere"
    /\ prog.pc = "requesting"
    /\ Len(prog.responses) < prog.n
    /\ \E body \in Bodies :
          LET r == cohere_request(prog.strict, body)
              p == [prog EXCEPT !.bodies = Append(@, body)]
          IN  prog' =
                 IF r.raised # "no"
                 THEN [p EXCEPT !.pc = "raised", !.raised = r.raised]
                 ELSE [p EXCEPT !.responses = Append(@, r.response)]
    /\ UNCHANGED <<cache, disk, ret, hist, calls, peer>>

\* Lines 95-106: every prompt has its response; the loops run and __call__
\* returns or raises.
CohereCollect ==
    /\ prog.at = "cohere"
    /\ prog.pc = "requesting"
    /\ Len(prog.responses) = prog.n
    /\ LET r == Collected(prog.responses, 1)
       IN  prog' = IF r.raised # "no"
                   THEN [prog EXCEPT !.pc = "raised", !.raised = r.raised]
                   ELSE [prog EXCEPT !.pc = "returned", !.out = r.out]
    /\ UNCHANGED <<cache, disk, ret, hist, calls, peer>>

InitCohere ==
    /\ NoCache
    /\ \E strict \in BOOLEAN :
          prog = [at |-> "cohere", strict |-> strict, pc |-> "ready", n |-> 0,
                  bodies |-> <<>>, responses |-> <<>>, out |-> <<>>,
                  raised |-> "no"]

NextCohere ==
    \/ CohereCall
    \/ CohereRequest
    \/ CohereCollect

SpecCohere == InitCohere /\ [][NextCohere]_vars

(***************************************************************************)
(* tasks/ner.py: the task factories and NERTask.initialize.  A label and a *)
(* labels string are sequences of characters.  SpanTask.__init__ (not part *)
(* of the sources at hand) is taken to build the label dict from the list  *)
(* of labels as initialize does at its last line.                          *)
(***************************************************************************)
\* s.split(",")
RECURSIVE split(_)
split(s) ==
    IF \A i \in DOMAIN s : s[i] # ","
    THEN <<s>>
    ELSE LET i == CHOOSE j \in DOMAIN s :
                      s[j] = "," /\ \A k \in 1..(j - 1) : s[k] # ","
         IN  <<SubSeq(s, 1, i - 1)>> \o split(SubSeq(s, i + 1, Len(s)))

\* s.strip()
RECURSIVE strip(_)
strip(s) ==
    IF s = <<>> THEN s
    ELSE IF Head(s) = " " THEN strip(Tail(s))
    ELSE IF s[Len(s)] = " " THEN strip(SubSeq(s, 1, Len(s) - 1))
    ELSE s

LabelsStr(s) == [t |-> "str", s |-> s, l |-> <<>>]
LabelsList(l) == [t |-> "list", s |-> <<>>, l |-> l]

\* util.split_labels
split_labels(labels) ==
    LET ls == IF labels.t = "str" THEN split(labels.s) ELSE labels.l
    IN  [i \in DOMAIN ls |-> strip(ls[i])]

\* str.lower(), on the letters the model uses.
lower(s) ==
    [i \in DOMAIN s |->
        CASE s[i] = "P" -> "p" [] s[i] = "L" -> "l" [] OTHER -> s[i]]

\* self._normalizer(label): the normalizer is a callable given to the
\* factory, here spacy.LowercaseNormalizer.v1 or one that changes nothing.
normalizer(nm, label) == IF nm = "lowercase" THEN lower(label) ELSE label

\* {self._normalizer(label): label for label in labels}
LabelDict(nm, labels) ==
    LET at(k) == {i \in DOMAIN labels : normalizer(nm, labels[i]) = k}
    IN  [k \in {normalizer(nm, labels[i]) : i \in DOMAIN labels} |->
            labels[CHOOSE i \in at(k) : \A j \in at(k) : j <= i]]

\* list(a_set) or list(a_dict.values()): the members, once each, in some
\* order.
Lists(S) ==
    {f \in [1..Cardinality(S) -> S] : \A i, j \in DOMAIN f : f[i] = f[j] => i = j}

\* Lines 173-182 of initialize: the lists labels can end up as.
Chosen(label_dict, labels, found) ==
    IF labels # <<>> THEN {labels}
    ELSE IF DOMAIN label_dict # {}
    THEN Lists({label_dict[k] : k \in DOMAIN label_dict})
    ELSE Lists(found)

\* The label dicts initialize can leave behind.
initialize(nm, label_dict, labels, found) ==
    {LabelDict(nm, ls) : ls \in Chosen(label_dict, labels, found)}

(***************************************************************************)
(* SpecNer: a task made by one of the factories from a labels entry of the *)
(* config, then initialized with labels and with examples whose reference  *)
(* docs carry entities.                                                    *)
(***************************************************************************)
NerCalls == 1

NerLabels == {<<"P">>, <<"p">>, <<"L">>}

FactoryLabels ==
    {LabelsStr(<<>>), LabelsStr(<<"P">>), LabelsStr(<<"P", ",", " ", "L">>),
     LabelsList(<<>>), LabelsList(<<(<<"P">>)>>),
     LabelsList(<<(<<"L">>), (<<"p">>)>>)}

InitializeLabels ==
    {<<>>} \cup {<<a>> : a \in NerLabels}
           \cup {<<a, b>> : a \in NerLabels, b \in NerLabels}

NerInitialize ==
    /\ prog.at = "ner"
    /\ prog.left > 0
    /\ \E labels \in InitializeLabels, found \in SUBSET NerLabels :
          \E d \in initialize(prog.normalizer, prog.label_dict, labels, found) :
              prog' = [prog EXCEPT !.label_dict = d,
                                   !.labels = labels,
                                   !.found = found,
                                   !.left = @ - 1]
    /\ UNCHANGED <<cache, disk, ret, hist, calls, peer>>

InitNer ==
    /\ NoCache
    /\ \E nm \in {"lowercase", "identity"}, conf \in FactoryLabels :
          prog = [at |-> "ner", normalizer |-> nm, conf |-> conf,
                  label_dict |-> LabelDict(nm, split_labels(conf)),
                  labels |-> <<>>, found |-> {},
                  left |-> NerCalls]

NextNer == NerInitialize

SpecNer == InitNer /\ [][NextNer]_vars

(***************************************************************************)
(* SpecClash: an instance with batch_size 2 and room for one batch in      *)
(* memory, with calls enough for two flushes and lookups around them.      *)
(***************************************************************************)
ClashCalls == 6

InitClash == Constructed("dir", 2, 1, ClashCalls)

NextClash ==
    \/ Add(Processed(SmallTexts, {"llm_a"}))
    \/ GetItem(Queries(SmallTexts))
    \/ SetVocab

SpecClash == InitClash /\ [][NextClash]_vars

(***************************************************************************)
(* SpecPoison: an instance with batch_size 1 and room for one batch in     *)
(* memory, whose flushes may fail, with calls enough for two flushes, a    *)
(* failing one and three lookups.                                          *)
(***************************************************************************)
PoisonCalls == 6

InitPoison == Constructed("dir", 1, 1, PoisonCalls)

NextPoison ==
    \/ Add(Processed(FifoTexts, {"llm_a"}))
    \/ AddFailing(Processed(FifoTexts, {"llm_a"}))
    \/ GetItem(Queries(FifoTexts))
    \/ SetVocab

SpecPoison == InitPoison /\ [][NextPoison]_vars

(***************************************************************************)
(* SpecCtor: the constructor itself, over a path that does not exist, is a *)
(* directory or is a file.  The initial state is inside __init__, before   *)
(* its call of _init_cache_index; when that call raises there is no        *)
(* instance, so no call can follow.  Later instances are constructed over  *)
(* the directory as the earlier ones left it.                              *)
(***************************************************************************)
CtorCalls == 5

DirKinds == {"absent", "dir", "file"}

Construct ==
    /\ ret.op = "new"
    /\ LET r == init_cache_index(cache, disk)
       IN  /\ cache' = r.cache
           /\ disk' = r.disk
           /\ ret' = Ret("init", NoDoc, r.raised, {}, FALSE)
           /\ calls' = IF r.raised = "no" THEN CtorCalls ELSE 0
    /\ UNCHANGED <<hist, others>>

InitCtor ==
    /\ \E bs \in 1..MaxBatchSize : cache = Fields("dir", bs, 0)
    /\ \E k \in DirKinds : disk = [EmptyDisk EXCEPT !.dir = k]
    /\ ret = Ret("new", NoDoc, "no", {}, FALSE)
    /\ hist = NoHist
    /\ calls = 0
    /\ peer = NoPeer
    /\ prog = NoProg

NextCtor ==
    \/ Construct
    \/ Add(Processed(SmallTexts, {"llm_a"}))
    \/ Reopen

SpecCtor == InitCtor /\ [][NextCtor]_vars

(***************************************************************************)
(* C1.  A cache built without a directory is a no-op: no call raises,      *)
(* contains is always false, lookup always returns None, the hit and       *)
(* hit_contains counters stay 0, the index and the write queue stay empty, *)
(* and nothing is created or written on disk.                              *)
(***************************************************************************)
C1_DisabledNoOp ==
    cache.path = "none" =>
        /\ ret.raised = "no"
        /\ ret.op = "contains" => ~ret.found
        /\ ret.op = "getitem" => ret.docs = {}
        /\ cache.stats.hit = 0
        /\ cache.stats.hit_contains = 0
        /\ cache.doc2batch = EmptyMap
        /\ cache.cache_queue = <<>>
        /\ disk = EmptyDisk

\* A disabled cache built with batch_size 0 and max_batches_in_mem 0 on
\* which contains, lookup and, last, add have been called.
C1_Witness ==
    /\ cache.path = "none"
    /\ cache.batch_size = 0
    /\ cache.max_batches_in_mem = 0
    /\ cache.stats.missed_contains > 0
    /\ cache.stats.missed > 0
    /\ ret.op = "add"

(***************************************************************************)
(* Steps of a behaviour, named by the call that made them.                 *)
(***************************************************************************)
Called(op) == calls' = calls - 1 /\ ret'.op = op
Returned(op) == Called(op) /\ ret'.raised = "no"
Enabled == cache.path = "dir"
Resident(c) == DOMAIN c.loaded_docs

\* What the N-th add into an empty queue leaves: the units are in the batch
\* file named by their batch id, no other batch file has changed, one index
\* record per unit has been appended, persisted has grown by N and the queue
\* is empty.
FlushedAtThreshold ==
    LET units == Append(cache.cache_queue, ret'.arg)
        ids   == DocIds(units)
        name  == str(batch_id(ids))
    IN  /\ DOMAIN disk'.files = DOMAIN disk.files \cup {name}
        /\ get_docs(disk'.files[name]) = units
        /\ \A f \in DOMAIN disk.files \ {name} : disk'.files[f] = disk.files[f]
        /\ disk'.index = disk.index \o IndexLines(ids, batch_id(ids))
        /\ cache'.stats.persisted = cache.stats.persisted + cache.batch_size
        /\ cache'.cache_queue = <<>>

\* What the add after it leaves: nothing more persisted, one unit buffered.
BufferedAfterFlush ==
    /\ disk' = disk
    /\ cache'.stats.persisted = cache.stats.persisted
    /\ cache'.cache_queue = <<ret'.arg>>

(***************************************************************************)
(* C2 as stated.  With batch_size = N >= 1, the N-th add into an empty     *)
(* queue flushes the N units as one batch, and the add after it persists   *)
(* nothing and leaves one unit buffered.                                   *)
(***************************************************************************)
C2_Original ==
    [][(Enabled /\ cache.batch_size >= 1 /\ Returned("add")) =>
          /\ Len(cache.cache_queue) = cache.batch_size - 1 => FlushedAtThreshold
          /\ cache.cache_queue = <<>> /\ cache.stats.persisted > 0
                => BufferedAfterFlush]_vars

(***************************************************************************)
(* C2, amended.  The first half holds for every batch_size = N >= 1; the   *)
(* second half holds for N >= 2 (with N = 1 the add after a flush is       *)
(* itself an N-th add and is flushed at once).                             *)
(***************************************************************************)
C2_FlushAtThreshold ==
    [][(Enabled /\ cache.batch_size >= 1 /\ Returned("add")) =>
          /\ Len(cache.cache_queue) = cache.batch_size - 1 => FlushedAtThreshold
          /\ cache.cache_queue = <<>> /\ cache.stats.persisted > 0
                /\ cache.batch_size >= 2 => BufferedAfterFlush]_vars

\* batch_size = 2 and three adds: two units persisted, one buffered.
C2_Witness ==
    /\ Enabled
    /\ cache.batch_size = 2
    /\ cache.stats.added = 3
    /\ cache.stats.persisted = 2
    /\ Len(cache.cache_queue) = 1
    /\ Len(disk.index) = 2
    /\ ret.op = "add"

C4_Original ==
    Cardinality(Resident(cache)) <= cache.max_batches_in_mem

(***************************************************************************)
(* C4, amended.  For every max_batches_in_mem >= 0 the number of batches   *)
(* resident in memory is at most max_batches_in_mem.                       *)
(***************************************************************************)
C4_ResidentBounded ==
    cache.max_batches_in_mem >= 0 =>
        Cardinality(Resident(cache)) <= cache.max_batches_in_mem

\* max_batches_in_mem = 1: a second batch was loaded and took the place of
\* the first.
C4_Witness ==
    /\ cache.max_batches_in_mem = 1
    /\ Cardinality(Resident(cache)) = 1
    /\ hist.evicted # -1
    /\ ret.op = "getitem"
    /\ ret.docs # {}

(***************************************************************************)
(* C5.  When a lookup has to load a batch that is not resident while the   *)
(* number of resident batches equals max_batches_in_mem (>= 1, so that a   *)
(* batch is resident), exactly one batch leaves memory, the resident batch *)
(* that was loaded earliest, whichever batch was looked up last; the batch *)
(* asked for is loaded in its place.                                       *)
(***************************************************************************)
MustLoad(doc) ==
    /\ ~NotCached(cache, doc_id(doc))
    /\ cache.doc2batch[doc_id(doc)] \notin Resident(cache)
    /\ cache.vocab

C5_FifoEviction ==
    [][(Called("getitem") /\ MustLoad(ret'.arg)
            /\ Cardinality(Resident(cache)) = cache.max_batches_in_mem) =>
          /\ Resident(cache) \ Resident(cache') = {Head(hist.loadOrder)}
          /\ Resident(cache') \ Resident(cache) =
                {cache.doc2batch[doc_id(ret'.arg)]}]_vars

\* max_batches_in_mem = 2: the batch that was evicted was the one looked up
\* last before the load that evicted it, and it has been loaded again since
\* by a lookup that found it in the index.
C5_Witness ==
    /\ cache.max_batches_in_mem = 2
    /\ hist.reloaded
    /\ Cardinality(Resident(cache)) = 2
    /\ ret.op = "getitem"
    /\ ret.docs # {}

(***************************************************************************)
(* C6 as stated.  Round trip: a fresh instance over the same directory,    *)
(* with the vocab set, returns for a query doc the unit that an earlier    *)
(* instance added and flushed under the query's fingerprint.               *)
(***************************************************************************)
C6_RoundTrip ==
    (hist.gen >= 1 /\ cache.vocab /\ ret.op = "getitem") =>
        \A u \in hist.flushedBefore :
            doc_id(u) = doc_id(ret.arg) => ret.raised = "no" /\ ret.docs = {u}

(***************************************************************************)
(* C7 as stated.  Every fingerprint of the in-memory index maps to a batch *)
(* whose batch file is on disk, also when a flush has raised.              *)
(***************************************************************************)
C7_IndexedBatchOnDisk ==
    Enabled =>
        \A id \in DOMAIN cache.doc2batch :
            str(cache.doc2batch[id]) \in DOMAIN disk.files

(***************************************************************************)
(* C8.  Index records reach index.jsonl only after the batch file was      *)
(* written: whichever step of a flush failed, every record of the index    *)
(* file names a batch whose file is on disk.                               *)
(***************************************************************************)
C8_DurableIndexNeverOverCounts ==
    \A i \in 1..Len(disk.index) :
        str(int(disk.index[i].v)) \in DOMAIN disk.files

\* A flush raised in write_jsonl: the batch file is on disk and no record of
\* the index file names it (the index under-counts).
C8_Witness ==
    /\ ret.op = "add"
    /\ ret.raised = "OSError"
    /\ \E f \in DOMAIN disk.files :
          \A i \in 1..Len(disk.index) : disk.index[i].v # f
    /\ Len(disk.index) > 0

(***************************************************************************)
(* C9 as stated.  A persisted batch is immutable: no later add or flush    *)
(* changes the units held by the batch file of a batch fingerprint.        *)
(***************************************************************************)
C9_BatchImmutable ==
    [][\A f \in DOMAIN disk.files :
          f \in DOMAIN disk'.files /\ disk'.files[f] = disk.files[f]]_vars

(***************************************************************************)
(* C10 as stated.  lookup(u) returns None and counts a miss if and only if *)
(* u's fingerprint is not a key of the index; if it is a key, lookup       *)
(* counts a hit and no miss and, with the vocab set and the unit in the    *)
(* batch file, returns a unit with that fingerprint.                       *)
(***************************************************************************)
Intact(id) ==
    LET name == str(cache.doc2batch[id])
    IN  /\ name \in DOMAIN disk.files
        /\ id \in DOMAIN DictOf(get_docs(disk.files[name]))

C10_LookupIffIndexed ==
    [][Called("getitem") =>
          LET id     == doc_id(ret'.arg)
              absent == id \notin DOMAIN cache.doc2batch
              missed == /\ ret'.raised = "no"
                        /\ ret'.docs = {}
                        /\ cache'.stats.missed = cache.stats.missed + 1
          IN  /\ absent <=> missed
              /\ ~absent =>
                    /\ cache'.stats.hit = cache.stats.hit + 1
                    /\ cache'.stats.missed = cache.stats.missed
                    /\ (cache.vocab /\ Intact(id)) =>
                          /\ ret'.docs # {}
                          /\ \A u \in ret'.docs : doc_id(u) = id]_vars

(***************************************************************************)
(* C11.  contains(u) is true if and only if u's fingerprint is a key of    *)
(* the in-memory index; the call adds one to hit_contains (true) or to     *)
(* missed_contains (false) and changes nothing else: not the index, the    *)
(* write queue, the resident batches, the load order, the other counters   *)
(* or the disk.                                                            *)
(***************************************************************************)
C11_ContainsFrame ==
    [][Called("contains") =>
          LET present == doc_id(ret'.arg) \in DOMAIN cache.doc2batch
          IN  /\ ret'.raised = "no"
              /\ ret'.found = present
              /\ disk' = disk
              /\ cache' =
                    IF present
                    THEN [cache EXCEPT !.stats.hit_contains = @ + 1]
                    ELSE [cache EXCEPT !.stats.missed_contains = @ + 1]]_vars

\* contains has answered true for a unit that was flushed, after it had
\* answered false once.
C11_Witness ==
    /\ ret.op = "contains"
    /\ ret.found
    /\ cache.stats.hit_contains = 1
    /\ cache.stats.missed_contains = 1
    /\ cache.stats.persisted > 0

(***************************************************************************)
(* C12.  The index file is append-only: across every step (an add, a       *)
(* flush, whole or cut short, by this instance or by a later one over the  *)
(* same directory) the records of the index file before the step are a     *)
(* prefix of its records after the step.                                   *)
(***************************************************************************)
IsPrefix(s, t) == Len(s) <= Len(t) /\ SubSeq(t, 1, Len(s)) = s

C12_IndexAppendOnly == [][IsPrefix(disk.index, disk'.index)]_vars

\* A later instance has appended its own records after those of an earlier
\* instance.
C12_Witness ==
    /\ hist.gen > 0
    /\ ret.op = "add"
    /\ cache.stats.persisted > 0
    /\ Len(disk.index) > cache.stats.persisted

(***************************************************************************)
(* C13.  After construction over a directory whose index file holds the    *)
(* records r1..rn, the in-memory index has exactly the fingerprints of     *)
(* those records as keys and maps each to the batch of the LAST record     *)
(* with that fingerprint: a unit flushed in two different batches is found *)
(* in the later one after a reload.                                        *)
(***************************************************************************)
RecordsOf(index, id) == {i \in DOMAIN index : int(index[i].k) = id}

LastRecord(index, id) ==
    index[CHOOSE i \in RecordsOf(index, id) :
             \A j \in RecordsOf(index, id) : j <= i]

C13_ReplayLastWins ==
    (ret.op = "init" /\ ret.raised = "no" /\ Enabled) =>
        /\ DOMAIN cache.doc2batch =
              {int(disk.index[i].k) : i \in DOMAIN disk.index}
        /\ \A id \in DOMAIN cache.doc2batch :
              cache.doc2batch[id] = int(LastRecord(disk.index, id).v)

\* An instance was constructed over an index file that names two different
\* batches for one fingerprint, and maps the fingerprint to the later one.
C13_Witness ==
    /\ ret.op = "init"
    /\ hist.gen > 0
    /\ \E i, j \in DOMAIN disk.index :
          /\ i < j
          /\ disk.index[i].k = disk.index[j].k
          /\ disk.index[i].v # disk.index[j].v
          /\ cache.doc2batch[int(disk.index[j].k)] = int(disk.index[j].v)

(***************************************************************************)
(* C15.  Construction with a directory path.  If the path does not exist,  *)
(* the directory is created and the instance starts with an empty index.   *)
(* If it is a directory, nothing on disk changes and the instance starts   *)
(* with the index replayed from the index file.  If it exists and is not a *)
(* directory, construction raises ValueError, no instance is produced (no  *)
(* call can follow) and nothing on disk changes.                           *)
(***************************************************************************)
C15_Construction ==
    [][(ret'.op = "init" /\ Enabled) =>
          LET fresh == Fields(cache.path, cache.batch_size,
                              cache.max_batches_in_mem)
          IN  /\ disk.dir = "absent" =>
                    /\ ret'.raised = "no"
                    /\ disk' = [disk EXCEPT !.dir = "dir"]
                    /\ cache' = fresh
              /\ disk.dir = "dir" =>
                    /\ ret'.raised = "no"
                    /\ disk' = disk
                    /\ cache' = [fresh EXCEPT
                                    !.doc2batch = Replay(disk.index, EmptyMap)]
              /\ disk.dir = "file" =>
                    /\ ret'.raised = "ValueError"
                    /\ disk' = disk
                    /\ calls' = 0]_vars

\* Construction over a path that is a file has failed.
C15_Witness ==
    /\ ret.op = "init"
    /\ ret.raised = "ValueError"
    /\ disk.dir = "file"
    /\ calls = 0

Buffered(q) ==
    /\ Enabled
    /\ \E i \in DOMAIN cache.cache_queue :
          doc_id(cache.cache_queue[i]) = doc_id(q)
    /\ \A i \in DOMAIN disk.index : int(disk.index[i].k) # doc_id(q)

C16_BufferedInvisible ==
    [][/\ (Called("contains") /\ Buffered(ret'.arg)) => ~ret'.found
       /\ (Called("getitem") /\ Buffered(ret'.arg)) =>
             (ret'.raised = "no" /\ ret'.docs = {})
       /\ (Called("add") /\ Enabled) =>
             IF cache'.stats.persisted > cache.stats.persisted
             THEN /\ cache'.cache_queue = <<>>
                  /\ \A u \in Range(cache.cache_queue) \cup {ret'.arg} :
                        /\ doc_id(u) \in DOMAIN cache'.doc2batch
                        /\ contains(cache', u).found
             ELSE cache'.doc2batch = cache.doc2batch]_vars

\* After a first batch was flushed, contains has answered false for a unit
\* that is waiting in the write queue.
C16_Witness ==
    /\ ret.op = "contains"
    /\ ~ret.found
    /\ cache.stats.persisted > 0
    /\ \E i \in DOMAIN cache.cache_queue :
          doc_id(cache.cache_queue[i]) = doc_id(ret.arg)

(***************************************************************************)
(* C17.  The scenario with batch_size 2 and max_batches_in_mem 1: A and B  *)
(* were added and flushed as batch {A,B}, C was added, a lookup of A (or   *)
(* B) loaded {A,B}, and a lookup of C missed.                              *)
(* As claimed (C17_Original): the call add D flushes {C,D} and evicts      *)
(* {A,B} from memory, and the lookup of A that follows loads {A,B} again.  *)
(* As checked (C17_Scenario): the call add D writes batch {C,D} and its    *)
(* two index records and leaves the memory as it was, {A,B} resident; the  *)
(* lookup of A that follows is a hit served from the resident batch,       *)
(* without a load or an eviction; {C,D} enters memory, and {A,B} leaves    *)
(* it, only when C or D is looked up.                                      *)
(***************************************************************************)
AfterLookupC ==
    /\ ret.op = "getitem"
    /\ ret.arg = ScenQuery(3)
    /\ ret.docs = {}
    /\ cache.cache_queue = <<ScenDoc(3)>>
    /\ cache.stats.hit = 1
    /\ cache.stats.missed = 1
    /\ Resident(cache) = {BatchAB}

AfterAddD ==
    /\ ret.op = "add"
    /\ ret.arg = ScenDoc(4)
    /\ cache.stats.persisted = 4
    /\ cache.stats.hit = 1
    /\ cache.stats.missed = 1
    /\ hist.lastHit = BatchAB

C17_Original ==
    [][/\ (AfterLookupC /\ Called("add")) =>
             /\ str(BatchCD) \in DOMAIN disk'.files
             /\ BatchAB \notin Resident(cache')
       /\ (AfterAddD /\ Called("getitem") /\ ret'.arg = ScenQuery(1)) =>
             /\ ret'.docs = {ScenDoc(1)}
             /\ cache'.batch_hashes # cache.batch_hashes]_vars

C17_Scenario ==
    [][/\ (AfterLookupC /\ Called("add")) =>
             /\ ret'.arg = ScenDoc(4)
             /\ ret'.raised = "no"
             /\ str(BatchCD) \notin DOMAIN disk.files
             /\ get_docs(disk'.files[str(BatchCD)]) = <<ScenDoc(3), ScenDoc(4)>>
             /\ Len(disk'.index) = Len(disk.index) + 2
             /\ cache'.stats.persisted = 4
             /\ cache'.cache_queue = <<>>
             /\ cache'.loaded_docs = cache.loaded_docs
             /\ cache'.batch_hashes = cache.batch_hashes
       /\ (AfterAddD /\ Called("getitem") /\ ret'.arg = ScenQuery(1)) =>
             /\ Resident(cache) = {BatchAB}
             /\ ret'.raised = "no"
             /\ ret'.docs = {ScenDoc(1)}
             /\ cache'.stats.hit = cache.stats.hit + 1
             /\ cache'.loaded_docs = cache.loaded_docs
             /\ cache'.batch_hashes = cache.batch_hashes
       /\ (AfterAddD /\ Called("getitem")
              /\ ret'.arg \in {ScenQuery(3), ScenQuery(4)}) =>
             /\ ret'.raised = "no"
             /\ ret'.docs \subseteq {ScenDoc(3), ScenDoc(4)}
             /\ ret'.docs # {}
             /\ Resident(cache') = {BatchCD}
             /\ cache'.batch_hashes = <<BatchCD>>]_vars

\* The whole scenario has run: the last lookup of A was served while
\* {A,B} was still the resident batch, loaded once.
C17_Witness ==
    /\ ret.op = "getitem"
    /\ ret.arg = ScenQuery(1)
    /\ ret.docs = {ScenDoc(1)}
    /\ cache.stats.persisted = 4
    /\ cache.stats.hit = 2
    /\ cache.stats.missed = 1
    /\ cache.batch_hashes = <<BatchAB>>
    /\ calls = 0

(***************************************************************************)
(* C18.  Last write wins under a fingerprint: once this instance has       *)
(* flushed two units with the same fingerprint, in one batch or in two, a  *)
(* lookup for that fingerprint returns the one flushed last, whether or    *)
(* not a batch holding the earlier one was resident at the second flush.   *)
(* Stated for lookups with the vocab set, room for a batch in memory and a *)
(* batch id other than 0, the lookups that C10 and C35 do not already      *)
(* break.                                                                  *)
(***************************************************************************)
C18_LastWriteWins ==
    LET id == doc_id(ret.arg)
    IN  (/\ ret.op = "getitem"
         /\ cache.vocab
         /\ cache.max_batches_in_mem > 0
         /\ id \in hist.twice
         /\ cache.doc2batch[id] # 0)
        => ret.docs = {hist.latest[id]}

(***************************************************************************)
(* C19.  A lookup of a fingerprint that is in the index, while the batch   *)
(* it is mapped to is not resident and its file is missing or lacks the    *)
(* fingerprint, or is resident and lacks the fingerprint, raises: it       *)
(* returns neither None nor a doc.                                         *)
(***************************************************************************)
Broken(id) ==
    LET b == cache.doc2batch[id]
    IN  IF b \in Resident(cache)
        THEN id \notin DOMAIN cache.loaded_docs[b]
        ELSE ~Intact(id)

C19_BrokenEntryRaises ==
    [][LET id == doc_id(ret'.arg)
       IN  (/\ Called("getitem")
            /\ Enabled
            /\ id \in DOMAIN cache.doc2batch
            /\ Broken(id))
           => (ret'.raised # "no" /\ ret'.docs = {})]_vars

(***************************************************************************)
(* C20.  The doc id depends on the order of the tokens: two docs made of   *)
(* the same tokens in a different order have different doc ids, so neither *)
(* contains nor a lookup for the one is answered with what was cached for  *)
(* the other.                                                              *)
(***************************************************************************)
Reordered(s, t) ==
    /\ s # t
    /\ Len(s) = Len(t)
    /\ \A v \in Range(s) \cup Range(t) :
          Cardinality({i \in DOMAIN s : s[i] = v}) =
          Cardinality({i \in DOMAIN t : t[i] = v})

C20_OrderSensitive ==
    /\ ret.op = "getitem" =>
          \A u \in ret.docs : ~Reordered(u.toks, ret.arg.toks)
    /\ (ret.op = "contains" /\ ret.found) =>
          \E u \in hist.flushed :
              doc_id(u) = doc_id(ret.arg) /\ ~Reordered(u.toks, ret.arg.toks)

(***************************************************************************)
(* C21.  The statistics of an instance without a directory.                *)
(* As claimed (C21_Original): every add adds one to 'added', every         *)
(* contains one to 'missed_contains', every lookup one to 'missed', and no *)
(* other counter moves.                                                    *)
(* As checked (C21_DisabledStats): add returns before it counts, so an add *)
(* leaves every counter as it was; every contains adds one to              *)
(* 'missed_contains' and every lookup one to 'missed', and no other        *)
(* counter moves.                                                          *)
(***************************************************************************)
C21_Original ==
    [][~Enabled =>
          /\ Called("add") =>
                cache'.stats = [cache.stats EXCEPT !.added = @ + 1]
          /\ Called("contains") =>
                cache'.stats = [cache.stats EXCEPT !.missed_contains = @ + 1]
          /\ Called("getitem") =>
                cache'.stats = [cache.stats EXCEPT !.missed = @ + 1]]_vars

C21_DisabledStats ==
    [][~Enabled =>
          /\ Called("add") => cache'.stats = cache.stats
          /\ Called("contains") =>
                cache'.stats = [cache.stats EXCEPT !.missed_contains = @ + 1]
          /\ Called("getitem") =>
                cache'.stats = [cache.stats EXCEPT !.missed = @ + 1]]_vars

\* An instance without a directory has served a contains and a lookup and
\* then an add, which is not counted.
C21_Witness ==
    /\ ~Enabled
    /\ ret.op = "add"
    /\ cache.stats.missed_contains = 1
    /\ cache.stats.missed = 1
    /\ cache.stats.added = 0

(***************************************************************************)
(* C22.  No call on an instance lowers one of its six counters: across     *)
(* every add (flushing or not, the flush completing or raising), contains  *)
(* and lookup (returning or raising), each counter after the call is at    *)
(* least what it was before.  (A step that constructs a new instance is    *)
(* not a call on the old one.)                                             *)
(***************************************************************************)
CounterNames == {"hit", "hit_contains", "missed", "missed_contains",
                 "added", "persisted"}

C22_CountersMonotone ==
    [][ret'.op # "init" =>
          /\ DOMAIN cache'.stats = CounterNames
          /\ \A k \in CounterNames : cache'.stats[k] >= cache.stats[k]]_vars

\* A flush has raised on an instance that had persisted a batch and served
\* a lookup before.
C22_Witness ==
    /\ ret.op = "add"
    /\ ret.raised = "OSError"
    /\ cache.stats.persisted > 0
    /\ cache.stats.hit + cache.stats.missed > 0

(***************************************************************************)
(* C23.  The batch id is the sum of the doc ids of its members modulo      *)
(* 2^WordBits, whatever their order: at every flush, the id under which    *)
(* the batch file is written and which the index records carry is that     *)
(* sum, and it is the batch id of every permutation of the flushed docs.   *)
(***************************************************************************)
RECURSIVE Total(_)
Total(s) == IF s = <<>> THEN 0 ELSE Head(s) + Total(Tail(s))

C23_BatchIdIsSum ==
    [][(Called("add") /\ cache'.stats.persisted > cache.stats.persisted) =>
          LET ids == DocIds(Append(cache.cache_queue, ret'.arg))
              b   == Total(ids) % Modulus
          IN  /\ \A p \in Permutations(DOMAIN ids) :
                    batch_id([i \in DOMAIN ids |-> ids[p[i]]]) = b
              /\ str(b) \in DOMAIN disk'.files
              /\ disk'.files[str(b)] =
                    DocBin(Append(cache.cache_queue, ret'.arg))
              /\ \A i \in DOMAIN ids : cache'.doc2batch[ids[i]] = b
              /\ SubSeq(disk'.index, Len(disk.index) + 1, Len(disk'.index)) =
                    [i \in DOMAIN ids |-> [k |-> str(ids[i]), v |-> str(b)]]]_vars

\* The same two docs were flushed twice, in the one and in the other order,
\* under the same batch id, which is their sum wrapped around.
C23_Witness ==
    /\ Len(disk.index) = 4
    /\ disk.index[1].k = disk.index[4].k
    /\ disk.index[2].k = disk.index[3].k
    /\ disk.index[1].k # disk.index[2].k
    /\ \A i \in 1..4 : disk.index[i].v = disk.index[1].v
    /\ int(disk.index[1].v) =
          int(disk.index[1].k) + int(disk.index[2].k) - Modulus

(***************************************************************************)
(* C24.  Two instances on one directory are not kept apart by any lock:    *)
(* whenever the other instance is inside _persist, writing the file of     *)
(* batch b (the file is open, or written with the index records still to   *)
(* come), and this instance has the vocab set, a doc mapped to b and b not *)
(* resident, its lookup of that doc can run and, unless the eviction that  *)
(* comes before the load fails, reads the file of b at once.               *)
(***************************************************************************)
MidWrite(b) == peer.pc \in {"writing", "write_jsonl"} /\ PeerBatch = b

\* The eviction of lines 204-207, if one is due, finds its batch.
CanEvict(c) ==
    MemFull(c) => (c.batch_hashes # <<>> /\ Oldest(c) \in Resident(c))

C24_ReadMidWrite ==
    \A q \in Queries(TwoTexts) :
        LET id == doc_id(q)
        IN  (/\ calls > 0
             /\ cache.vocab
             /\ ~NotCached(cache, id)
             /\ cache.doc2batch[id] \notin Resident(cache)
             /\ CanEvict(cache)
             /\ MidWrite(cache.doc2batch[id]))
            => ENABLED (/\ Lookup({q})
                        /\ cache'.batch_hashes # cache.batch_hashes)

\* This instance has read the file of a batch while the other instance had
\* it open for writing, and got what was not yet a batch file.
C24_Witness ==
    /\ ret.op = "getitem"
    /\ ret.raised = "zlib.error"
    /\ MidWrite(cache.doc2batch[doc_id(ret.arg)])
    /\ str(PeerBatch) \in disk.torn
    /\ cache.batch_hashes # <<>>

(***************************************************************************)
(* C25.  When consume_parameter returns, it returns type_ applied to the   *)
(* environment variable prefix + KEY if that variable is set, otherwise    *)
(* the config entry for key if there is one, otherwise the default; and    *)
(* afterwards key is not in config (also when the value came from the      *)
(* environment) while every other entry of config is as it was.            *)
(***************************************************************************)
Consumed == prog.at = "util" /\ prog'.left = prog.left - 1

EnvName(a) == (IF a.prefix = None THEN <<>> ELSE a.prefix.s) \o upper(a.key)

C25_ConsumeParameter ==
    [][(Consumed /\ prog'.out.raised = "no") =>
          LET a    == prog'.args
              name == EnvName(a)
          IN  /\ prog'.out.value =
                    IF name \in DOMAIN prog.environ
                    THEN type_(a.type_, prog.environ[name]).value
                    ELSE IF a.key \in DOMAIN prog.config
                    THEN prog.config[a.key]
                    ELSE a.default
              /\ DOMAIN prog'.config = DOMAIN prog.config \ {a.key}
              /\ \A k \in DOMAIN prog'.config :
                    prog'.config[k] = prog.config[k]
              /\ prog'.environ = prog.environ]_vars

\* The value came from the environment, converted to an int, and the key
\* was popped from a config that had it, next to another entry.
C25_Witness ==
    /\ prog.at = "util"
    /\ prog.left = 0
    /\ prog.out = [raised |-> "no", value |-> IntV(12)]
    /\ prog.args.key = <<"b">>
    /\ prog.args.prefix # None
    /\ DOMAIN prog.config = {<<"B">>}

(***************************************************************************)
(* C26.  When consume_parameter raises ValueError.                         *)
(* As claimed (C26_Original): exactly when the environment variable is     *)
(* unset, key is not in config and default is None; config is then as it   *)
(* was.                                                                    *)
(* As checked (C26_ValueError): in that case, with config as it was, and   *)
(* also when the environment variable is set and type_ raises ValueError   *)
(* on its value (int on a string that is no number), with key popped from  *)
(* config; in no other case.                                               *)
(***************************************************************************)
Missing(a) ==
    /\ EnvName(a) \notin DOMAIN prog.environ
    /\ a.key \notin DOMAIN prog.config
    /\ a.default = None

Unconvertible(a) ==
    /\ EnvName(a) \in DOMAIN prog.environ
    /\ a.type_ = "int"
    /\ LET v == prog.environ[EnvName(a)]
       IN  v = <<>> \/ \E i \in DOMAIN v : v[i] \notin DigitChars

C26_Original ==
    [][Consumed =>
          /\ prog'.out.raised = "ValueError" <=> Missing(prog'.args)
          /\ prog'.out.raised = "ValueError" => prog'.config = prog.config]_vars

C26_ValueError ==
    [][Consumed =>
          /\ prog'.out.raised \in {"no", "ValueError"}
          /\ prog'.out.raised = "ValueError" <=>
                (Missing(prog'.args) \/ Unconvertible(prog'.args))
          /\ Missing(prog'.args) => prog'.config = prog.config
          /\ Unconvertible(prog'.args) =>
                prog'.config = Drop(prog.config, prog'.args.key)]_vars

\* ValueError was raised for a parameter found nowhere, while the variable
\* without the prefix and another config entry were there.
C26_Witness ==
    /\ prog.at = "util"
    /\ prog.left = 0
    /\ prog.out.raised = "ValueError"
    /\ prog.args.key = <<"b">>
    /\ prog.args.prefix # None
    /\ prog.args.default = None
    /\ <<"F", "_", "B">> \notin DOMAIN prog.environ
    /\ <<"B">> \in DOMAIN prog.environ
    /\ DOMAIN prog.config = {<<"c">>}

(***************************************************************************)
(* C27.  Error responses of the Azure API and strict.                      *)
(* As claimed (C27_Original): with strict False __call__ never raises,     *)
(* whatever error response it gets, and returns the error response once    *)
(* per prompt; ValueError is raised with strict True only.                 *)
(* As checked (C27_ErrorResponses): a response with an HTTP error status   *)
(* makes __call__ raise ValueError whatever strict is; a response with a   *)
(* success status and an "error" entry makes it raise ValueError if strict *)
(* is True and return the serialized error response once per prompt if     *)
(* strict is False; __call__ raises in no other case.                      *)
(***************************************************************************)
GotError == prog.seen \cap {"error", "http_error"} # {}

Named(conf) ==
    LET ls == split_labels(conf)
    IN  {ls[i] : i \in DOMAIN ls} \ {<<>>}

C28_LabelPrecedence ==
    (prog.at = "ner" /\ prog.left = NerCalls - 1) =>
        LET chosen == IF prog.labels # <<>> THEN Range(prog.labels)
                      ELSE IF Named(prog.conf) # {} THEN Named(prog.conf)
                      ELSE prog.found
        IN  /\ DOMAIN prog.label_dict =
                  {normalizer(prog.normalizer, l) : l \in chosen}
            /\ \A l \in chosen :
                  prog.label_dict[normalizer(prog.normalizer, l)] = l

(***************************************************************************)
(* C29.  Within one instance no index entry is ever removed: a unit for    *)
(* which contains answers true keeps that answer over every add, flush     *)
(* (failed or not), contains and lookup; a lookup, with or without an      *)
(* eviction, leaves the index as it is.                                    *)
(***************************************************************************)
SameInstance == hist'.gen = hist.gen

C29_IndexEntriesStay ==
    [][SameInstance =>
          /\ \A doc \in Queries(SmallTexts) :
                contains(cache, doc).found => contains(cache', doc).found
          /\ \A id \in DOMAIN cache.doc2batch : id \in DOMAIN cache'.doc2batch
          /\ Called("getitem") => cache'.doc2batch = cache.doc2batch]_vars

\* A lookup has just evicted a batch, and contains still answers true for a
\* unit of that batch.
C29_Witness ==
    /\ ret.op = "getitem"
    /\ hist.evicted # -1
    /\ hist.evicted \notin Resident(cache)
    /\ \E doc \in Queries(SmallTexts) :
          /\ contains(cache, doc).found
          /\ cache.doc2batch[doc_id(doc)] = hist.evicted

(***************************************************************************)
(* C30.  After every flush that succeeds the index the instance holds in   *)
(* memory equals the map got by replaying the index file from its first    *)
(* record, a later record overriding an earlier one: it is the index a     *)
(* fresh instance constructed over the directory would build.              *)
(***************************************************************************)
FlushSucceeded ==
    /\ Called("add")
    /\ ret'.raised = "no"
    /\ cache'.stats.persisted > cache.stats.persisted

\* The index of a fresh instance constructed with the same arguments.
Fresh(c, d) ==
    init_cache_index(Fields(c.path, c.batch_size, c.max_batches_in_mem), d).cache.doc2batch

C30_IndexEqualsReplay ==
    [][FlushSucceeded =>
          /\ cache'.doc2batch = Replay(disk'.index, EmptyMap)
          /\ cache'.doc2batch = Fresh(cache', disk')]_vars

\* A flush has just succeeded and the index file holds two records for one
\* unit that name different batches.
C30_Witness ==
    /\ ret.op = "add"
    /\ ret.raised = "no"
    /\ cache.cache_queue = <<>>
    /\ cache.stats.persisted > 0
    /\ \E i, j \in DOMAIN disk.index :
          /\ i < j
          /\ disk.index[i].k = disk.index[j].k
          /\ disk.index[i].v # disk.index[j].v
          /\ cache.doc2batch[int(disk.index[j].k)] = int(disk.index[j].v)

(***************************************************************************)
(* C31.  A lookup of a unit that the index maps to a batch resident in     *)
(* memory returns the unit without raising, with or without a vocab, and   *)
(* changes nothing but the 'hit' counter: the resident batches, the load   *)
(* order, the index, the queue and the disk stay as they were.             *)
(***************************************************************************)
\* The lookup of this step is one of a doc mapped to a resident batch.
ResidentLookup ==
    /\ Called("getitem")
    /\ ~NotCached(cache, doc_id(ret'.arg))
    /\ cache.doc2batch[doc_id(ret'.arg)] \in Resident(cache)

C31_ResidentLookup ==
    [][ResidentLookup =>
          /\ ret'.raised = "no"
          /\ \E doc \in ret'.docs : doc_id(doc) = doc_id(ret'.arg)
          /\ cache' = [cache EXCEPT !.stats.hit = @ + 1]
          /\ disk' = disk]_vars

(***************************************************************************)
(* C32.  In every reachable state, also after a lookup that raised while   *)
(* it loaded a batch, the load-order list holds exactly the batches        *)
(* resident in memory, each once, in the order in which they were loaded.  *)
(***************************************************************************)
C32_LoadOrderIsResident ==
    /\ Range(cache.batch_hashes) = Resident(cache)
    /\ Len(cache.batch_hashes) = Cardinality(Resident(cache))
    /\ cache.batch_hashes = hist.loadOrder

(***************************************************************************)
(* C33.  After a lookup has raised because a batch file was missing or     *)
(* unreadable, every later lookup of an indexed unit whose own batch file  *)
(* is intact, with the vocab set and max_batches_in_mem >= 1, still        *)
(* returns that unit.                                                      *)
(***************************************************************************)
C33_FailedLoadHarmless ==
    [][LET id == doc_id(ret'.arg)
       IN  (/\ Called("getitem")
            /\ hist.loadFailed
            /\ cache.vocab
            /\ cache.max_batches_in_mem >= 1
            /\ id \in DOMAIN cache.doc2batch
            /\ Intact(id))
           => /\ ret'.raised = "no"
              /\ \E doc \in ret'.docs : doc_id(doc) = id]_vars

(***************************************************************************)
(* C34.  When the flush of an add raises, the buffered units stay in the   *)
(* queue; the next add whose writes succeed flushes them with its own      *)
(* unit, so that the queue never grows beyond batch_size.                  *)
(***************************************************************************)
\* A failed flush has left the queue full.
FlushPending == cache.batch_size >= 1 /\ Len(cache.cache_queue) >= cache.batch_size

C34_FailedFlushRetried ==
    [][Called("add") =>
          /\ ret'.raised # "no" =>
                cache'.cache_queue = Append(cache.cache_queue, ret'.arg)
          /\ (FlushPending /\ ret'.raised = "no") =>
                /\ cache'.cache_queue = <<>>
                /\ cache'.stats.persisted =
                      cache.stats.persisted + Len(cache.cache_queue) + 1
          /\ Len(cache'.cache_queue) <= cache.batch_size]_vars

(***************************************************************************)
(* C35.  For every max_batches_in_mem >= 0, 0 included, a lookup of an     *)
(* indexed unit with the vocab set and the unit's batch intact returns     *)
(* that unit and does not raise.  (Stated for batch ids other than 0.)     *)
(***************************************************************************)
C35_LookupAnyBudget ==
    [][LET id == doc_id(ret'.arg)
       IN  (/\ Called("getitem")
            /\ Enabled
            /\ cache.vocab
            /\ cache.max_batches_in_mem >= 0
            /\ ~NotCached(cache, id)
            /\ ~Broken(id))
           => /\ ret'.raised = "no"
              /\ \E doc \in ret'.docs : doc_id(doc) = id]_vars

(***************************************************************************)
(* C36.  In every reachable state of an enabled cache 'added' equals       *)
(* 'persisted' plus the length of the queue; so 'persisted' never exceeds  *)
(* 'added', and for batch_size >= 1 'persisted' is a multiple of           *)
(* batch_size.  (Checked with failing flushes too: a failed flush counts   *)
(* nothing as persisted and keeps the queue.)                              *)
(***************************************************************************)
C36_AddedPersistedQueue ==
    Enabled =>
        /\ cache.stats.added = cache.stats.persisted + Len(cache.cache_queue)
        /\ cache.stats.persisted <= cache.stats.added
        /\ cache.batch_size >= 1 =>
              cache.stats.persisted % cache.batch_size = 0

\* Two docs were flushed as one batch and a third is waiting in the queue.
C36_Witness ==
    /\ Enabled
    /\ cache.batch_size = 2
    /\ cache.stats.persisted = 2
    /\ Len(cache.cache_queue) = 1
    /\ cache.stats.added = 3

(***************************************************************************)
(* C37.  With two instances on one directory, the index an instance holds  *)
(* in memory is the index file as of its construction plus its own         *)
(* flushes: a flush of the other instance adds nothing to it, contains and *)
(* lookup go on reporting a miss for the units of that flush, and an       *)
(* instance constructed afterwards has every unit the index file records.  *)
(***************************************************************************)
OnFile(id) == \E i \in DOMAIN disk.index : int(disk.index[i].k) = id

C37_IndexAsOfConstruction ==
    [][/\ \A id \in DOMAIN cache'.doc2batch \ DOMAIN cache.doc2batch :
             \/ /\ Called("add")
                /\ \E doc \in Range(Append(cache.cache_queue, ret'.arg)) :
                      doc_id(doc) = id
             \/ Called("init") /\ OnFile(id)
       /\ (Called("contains") /\ doc_id(ret'.arg) \notin DOMAIN cache.doc2batch)
             => ~ret'.found
       /\ (Called("getitem") /\ doc_id(ret'.arg) \notin DOMAIN cache.doc2batch)
             => (ret'.raised = "no" /\ ret'.docs = {})
       /\ (Called("init") /\ ret'.raised = "no")
             => \A i \in DOMAIN disk.index :
                   int(disk.index[i].k) \in DOMAIN cache'.doc2batch]_vars

\* The other instance has flushed a unit, the index file records it, and
\* this instance, constructed before, has just answered that it is not cached.
C37_Witness ==
    /\ ret.op = "contains"
    /\ ~ret.found
    /\ peer.cache.stats.persisted > 0
    /\ doc_id(ret.arg) \in DOMAIN peer.cache.doc2batch
    /\ OnFile(doc_id(ret.arg))
    /\ doc_id(ret.arg) \notin DOMAIN cache.doc2batch

(***************************************************************************)
(* C38.  CohereBackend.__call__ returns, without raising, exactly one      *)
(* response per prompt, in the order of the prompts, whenever every        *)
(* request is answered with a body of generations (any number of them,     *)
(* each with or without 'text') or, with strict = False, with an error     *)
(* body carrying 'message'.                                                *)
(***************************************************************************)
\* The bodies the call has received are all among those the claim names.
Answered ==
    \A i \in DOMAIN prog.bodies :
        \/ prog.bodies[i].kind = "generations"
        \/ prog.bodies[i].kind = "message" /\ ~prog.strict

C38_OneResponsePerPrompt ==
    (prog.at = "cohere" /\ prog.pc \in {"returned", "raised"} /\ Answered) =>
        /\ prog.pc = "returned"
        /\ Len(prog.out) = prog.n
        /\ \A i \in DOMAIN prog.out : prog.out[i].prompt = i

====
